---- MODULE Spec2Model ----
(***************************************************************************)
(* Fuzzy-logic fan controller of src/tempcontrol.py: three linguistic      *)
(* variables over 0..100, triangular membership functions, nine rules, a   *)
(* single shared ControlSystemSimulation, Mamdani min/max inference with   *)
(* centroid defuzzification, a 21x21 grid sweep and five test cases.       *)
(*                                                                         *)
(* The script delegates the inference to the scikit-fuzzy calls it makes   *)
(* (trimf, Rule, ControlSystem, ControlSystemSimulation.compute); each     *)
(* operator below models what the call at the named line computes.         *)
(*                                                                         *)
(* Numbers.  Membership degrees are kept exactly as integers: a degree d   *)
(* is stored as d * One.  Positions on the output universe are kept in     *)
(* half units (x is stored as 2x), because the only sample points the      *)
(* defuzzifier adds to the integer universe are the points where a cut     *)
(* crosses a membership function, and for integer inputs those fall on     *)
(* integers or half-integers.  A crisp output is an exact fraction         *)
(* [num, den]; floating-point rounding is not modelled.                    *)
(*                                                                         *)
(* Specifications.  Spec is the script itself.  SpecFault is the script    *)
(* with an exception raised inside the sweep's try.  SpecEval is one       *)
(* simulation evaluated at any input pair and then at the exchanged pair.  *)
(* SpecOrder computes the rules of one run in any order.  SpecWeight       *)
(* raises the weight of one rule.  SpecMF reads one membership degree.     *)
(***************************************************************************)
EXTENDS Integers, Sequences, FiniteSets, TLC

\* ------------------------------------------------------------------ numbers

\* The membership degree 1.0 (y[idx] = 1 at the peak of trimf).
One == 100

\* A rule weight of 1.0 (the default weight of a consequent term); weights
\* are stored in fifths.
WOne == 5

\* "no value yet" (Python None) for a term's membership value / an output.
None == -1

Min(a, b) == IF a <= b THEN a ELSE b

Max(a, b) == IF a >= b THEN a ELSE b

\* a/b < c/d for a, c >= 0 and b, d > 0, without forming the cross products
\* (compares integer parts, then the reciprocals of the fractional parts).
RECURSIVE FracLess(_, _, _, _)
FracLess(a, b, c, d) ==
  LET qa == a \div b
      qc == c \div d
      ra == a % b
      rc == c % d
  IN  IF qa # qc THEN qa < qc
      ELSE IF rc = 0 THEN FALSE
      ELSE IF ra = 0 THEN TRUE
      ELSE FracLess(d, rc, b, ra)

\* ------------------------------------------------- variables and their terms

\* np.arange(0, 101, 1): the universe of temperature, humidity and fan_speed.
Universe == 0..100

UMax == 100

\* Variant of trimf that leaves out the assignment y = 1 where x = b.
trimf_nopeak(x, a, b, c) ==
  IF a # b /\ a < x /\ x < b THEN ((x - a) * One) \div (b - a)
  ELSE IF b # c /\ b < x /\ x < c THEN ((c - x) * One) \div (c - b)
  ELSE 0

\* Variant of trimf whose sides are not confined to the support [a, c].
trimf_open(x, a, b, c) ==
  IF x = b THEN One
  ELSE IF a # b /\ a <= x /\ x < b THEN ((x - a) * One) \div (b - a)
  ELSE IF b # c /\ b < x THEN One - ((x - b) * One) \div (c - b)
  ELSE 0

\* fuzz.trimf(x, [a, b, c]): zeros, then the left side (only if a # b), then
\* the right side (only if b # c), then y = 1 where x = b.
trimf(x, a, b, c) ==
  IF x = b THEN One
  ELSE IF a # b /\ a < x /\ x < b THEN ((x - a) * One) \div (b - a)
  ELSE IF b # c /\ b < x /\ x < c THEN ((c - x) * One) \div (c - b)
  ELSE 0

\* The [a, b, c] given to trimf for each term.
abc ==
  [ Cold    |-> <<0, 0, 50>>,  Warm    |-> <<25, 50, 75>>, Hot  |-> <<50, 100, 100>>,
    Dry     |-> <<0, 0, 50>>,  Comfort |-> <<25, 50, 75>>, Wet  |-> <<50, 100, 100>>,
    Low     |-> <<0, 0, 50>>,  Medium  |-> <<25, 50, 75>>, High |-> <<50, 100, 100>> ]

TempTerms == {"Cold", "Warm", "Hot"}

HumidTerms == {"Dry", "Comfort", "Wet"}

FanTerms == {"Low", "Medium", "High"}

MF(term) == [x \in Universe |-> trimf(x, abc[term][1], abc[term][2], abc[term][3])]

temperature == [Cold |-> MF("Cold"), Warm |-> MF("Warm"), Hot |-> MF("Hot")]

humidity == [Dry |-> MF("Dry"), Comfort |-> MF("Comfort"), Wet |-> MF("Wet")]

fan_speed == [Low |-> MF("Low"), Medium |-> MF("Medium"), High |-> MF("High")]

\* ----------------------------------------------------------------- the rules

\* Variant of rule1 with the consequent Medium.
rule1_medium == [temp |-> "Cold", humid |-> "Dry", out |-> "Medium"]

rule1 == [temp |-> "Cold", humid |-> "Dry",     out |-> "Low"]

rule2 == [temp |-> "Cold", humid |-> "Comfort", out |-> "Low"]

\* Variant of rule3 with the consequent Low.
rule3_low == [temp |-> "Cold", humid |-> "Wet", out |-> "Low"]

rule3 == [temp |-> "Cold", humid |-> "Wet",     out |-> "Medium"]

rule4 == [temp |-> "Warm", humid |-> "Dry",     out |-> "Low"]

\* Variant of rule5 with the humidity term of rule4.
rule5_dry == [temp |-> "Warm", humid |-> "Dry", out |-> "Medium"]

rule5 == [temp |-> "Warm", humid |-> "Comfort", out |-> "Medium"]

rule6 == [temp |-> "Warm", humid |-> "Wet",     out |-> "High"]

rule7 == [temp |-> "Hot",  humid |-> "Dry",     out |-> "Medium"]

rule8 == [temp |-> "Hot",  humid |-> "Comfort", out |-> "High"]

rule9 == [temp |-> "Hot",  humid |-> "Wet",     out |-> "High"]

\* ctrl.ControlSystem([rule1, ..., rule9])
fan_control == <<rule1, rule2, rule3, rule4, rule5, rule6, rule7, rule8, rule9>>

RuleIds == 1..9

\* Every consequent is given without a weight, so each rule has weight 1.0.
DefaultWeights == [r \in RuleIds |-> WOne]

\* ------------------------------------------------------------- the inference

\* The antecedent temperature[A] & humidity[B]: each input is fuzzified by
\* interpolating the term's sampled membership function at the crisp input
\* (an integer input is a sample point), and & is the minimum.
firing(rule, t, h) == Min(temperature[rule.temp][t], humidity[rule.humid][h])

\* Variant of activation that applies the complement of the weight.
activation_complement(rule, w, t, h) == (firing(rule, t, h) * (WOne - w)) \div WOne

\* The activation of a rule's consequent: firing strength times weight.
activation(rule, w, t, h) == (firing(rule, t, h) * w) \div WOne

\* Variant of accumulate that keeps the last activation only.
accumulate_last(value, old) == value

\* Accumulation into the consequent term's membership value: the first
\* activation is taken as is, later ones are combined with the maximum.
accumulate(value, old) == IF old = None THEN value ELSE Max(value, old)

\* compute_rule: activate one rule and accumulate it into its term.
compute_rule(mv, r, w, t, h) ==
  LET rule == fan_control[r]
  IN  [mv EXCEPT ![rule.out] = accumulate(activation(rule, w[r], t, h), mv[rule.out])]

\* Before the first rule of a run is computed, the membership value of that
\* rule's consequent term is cleared.
clear_first(mv, r) == [mv EXCEPT ![fan_control[r].out] = None]

NoMembership == [term \in FanTerms |-> None]

\* The rules of a run, computed in the order `order` (a sequence of rule
\* ids), starting from the term membership values `mv`.
RECURSIVE fire_from(_, _, _, _, _, _)
fire_from(mv, order, n, w, t, h) ==
  IF n > Len(order) THEN mv
  ELSE fire_from(compute_rule(mv, order[n], w, t, h), order, n + 1, w, t, h)

fire_rules(mv, order, w, t, h) ==
  IF Len(order) = 0 THEN mv
  ELSE fire_from(clear_first(mv, order[1]), order, 1, w, t, h)

RuleOrder == [n \in RuleIds |-> n]

\* ---------------------------------------------------------- defuzzification

\* xmf >= y, or xmf > y for the zero-level cut.
AtLeastCut(v, y) == IF y = 0 THEN v > 0 ELSE v >= y

\* The universe values (in half units) where the cut y crosses the sampled
\* membership function mf, by linear interpolation between the two samples
\* around each crossing.
interp_universe(mf, y) ==
  { 2 * idx + (2 * (y - mf[idx])) \div (mf[idx + 1] - mf[idx]) :
      idx \in {n \in 0..(UMax - 1) : AtLeastCut(mf[n], y) # AtLeastCut(mf[n + 1], y)} }

\* interp_membership(universe, mf, p): the sampled membership function,
\* linearly interpolated at the half-unit position p.
interp_membership(mf, p) ==
  IF p % 2 = 0 THEN mf[p \div 2]
  ELSE (mf[(p - 1) \div 2] + mf[(p + 1) \div 2]) \div 2

\* The terms that have a membership value in this run.
CutTerms(mv) == {term \in FanTerms : mv[term] # None}

\* The values the cuts add to the universe: for every term that has a
\* membership value, the points where its cut crosses its function.
new_values(mv) ==
  UNION {interp_universe(fan_speed[term], mv[term]) : term \in CutTerms(mv)}

\* Whether the half-unit position p is a point of np.union1d(universe,
\* new_values): a point of the universe (an even position) or an added one.
new_universe(nv, p) == p % 2 = 0 \/ p \in nv

\* A term's membership function at position p, clipped at the term's cut
\* (0 for a term without a membership value, which is left out).
clipped(mv, term, p) ==
  IF mv[term] = None THEN 0 ELSE Min(mv[term], interp_membership(fan_speed[term], p))

\* The aggregated output membership at position p: the maximum over the
\* terms of the clipped membership functions.
output_at(mv, p) ==
  Max(clipped(mv, "Low", p), Max(clipped(mv, "Medium", p), clipped(mv, "High", p)))

\* One segment [x1, x2] of the aggregated curve, heights y1 and y2:
\* 6 * moment * area and 2 * area, by the shape of the segment.
SegMoment(x1, x2, y1, y2) ==
  IF (y1 = 0 /\ y2 = 0) \/ x1 = x2 THEN 0
  ELSE IF y1 = y2 THEN 3 * (x1 + x2) * (x2 - x1) * y1
  ELSE IF y1 = 0 THEN (2 * (x2 - x1) + 3 * x1) * (x2 - x1) * y2
  ELSE IF y2 = 0 THEN ((x2 - x1) + 3 * x1) * (x2 - x1) * y1
  ELSE (x2 - x1) * (x2 - x1) * (2 * y2 + y1) + 3 * x1 * (x2 - x1) * (y1 + y2)

SegArea(x1, x2, y1, y2) ==
  IF (y1 = 0 /\ y2 = 0) \/ x1 = x2 THEN 0
  ELSE IF y1 = y2 THEN 2 * (x2 - x1) * y1
  ELSE IF y1 = 0 THEN (x2 - x1) * y2
  ELSE IF y2 = 0 THEN (x2 - x1) * y1
  ELSE (x2 - x1) * (y1 + y2)

\* The segments of the new universe between the universe points x and
\* x + 1 (positions 2x and 2x + 2): one segment, or two when a value was
\* added between them.
MomentBetween(mfx, nv, x) ==
  IF new_universe(nv, 2 * x + 1)
  THEN SegMoment(2 * x, 2 * x + 1, mfx[2 * x], mfx[2 * x + 1])
       + SegMoment(2 * x + 1, 2 * x + 2, mfx[2 * x + 1], mfx[2 * x + 2])
  ELSE SegMoment(2 * x, 2 * x + 2, mfx[2 * x], mfx[2 * x + 2])

AreaBetween(mfx, nv, x) ==
  IF new_universe(nv, 2 * x + 1)
  THEN SegArea(2 * x, 2 * x + 1, mfx[2 * x], mfx[2 * x + 1])
       + SegArea(2 * x + 1, 2 * x + 2, mfx[2 * x + 1], mfx[2 * x + 2])
  ELSE SegArea(2 * x, 2 * x + 2, mfx[2 * x], mfx[2 * x + 2])

\* The sums over the segments that start at the universe points lo..hi
\* (halving the range keeps the evaluation shallow).
RECURSIVE SumMoment(_, _, _, _)
SumMoment(mfx, nv, lo, hi) ==
  IF lo > hi THEN 0
  ELSE IF lo = hi THEN MomentBetween(mfx, nv, lo)
  ELSE SumMoment(mfx, nv, lo, (lo + hi) \div 2)
       + SumMoment(mfx, nv, (lo + hi) \div 2 + 1, hi)

RECURSIVE SumArea(_, _, _, _)
SumArea(mfx, nv, lo, hi) ==
  IF lo > hi THEN 0
  ELSE IF lo = hi THEN AreaBetween(mfx, nv, lo)
  ELSE SumArea(mfx, nv, lo, (lo + hi) \div 2)
       + SumArea(mfx, nv, (lo + hi) \div 2 + 1, hi)

\* The sum of x * mfx[x] (d = 1) or of mfx[x] (d = 0) over the integer
\* sample points lo..hi.
RECURSIVE PointSum(_, _, _, _)
PointSum(mfx, d, lo, hi) ==
  IF lo > hi THEN 0
  ELSE IF lo = hi THEN (IF d = 1 THEN lo ELSE 1) * mfx[2 * lo]
  ELSE LET mid == (lo + hi) \div 2
       IN  PointSum(mfx, d, lo, mid) + PointSum(mfx, d, mid + 1, hi)

\* Variant of centroid: sum of x * mfx over sum of mfx at the universe points.
centroid_sum(mfx, nv) ==
  [num |-> PointSum(mfx, 1, 0, UMax), den |-> PointSum(mfx, 0, 0, UMax)]

\* centroid(x, mfx): sum of moment * area over sum of area, as an exact
\* fraction in units of the universe (positions are half units, moments
\* carry a factor 6 and areas a factor 2: 6M / (2A * 3) half units).
centroid(mfx, nv) ==
  [num |-> SumMoment(mfx, nv, 0, UMax - 1),
   den |-> 6 * SumArea(mfx, nv, 0, UMax - 1)]

\* mfx.sum(): the total of the aggregated curve over the sample points, the
\* points of the universe and the added ones.
RECURSIVE UniverseSum(_, _, _)
UniverseSum(mfx, lo, hi) ==
  IF lo > hi THEN 0
  ELSE IF lo = hi THEN mfx[2 * lo]
  ELSE UniverseSum(mfx, lo, (lo + hi) \div 2)
       + UniverseSum(mfx, (lo + hi) \div 2 + 1, hi)

RECURSIVE AddedSum(_, _)
AddedSum(mfx, added) ==
  IF added = {} THEN 0
  ELSE LET p == CHOOSE q \in added : TRUE
       IN  mfx[p] + AddedSum(mfx, added \ {p})

CurveSum(mfx, nv) ==
  UniverseSum(mfx, 0, UMax) + AddedSum(mfx, {p \in nv : p % 2 = 1})

\* CrispValueCalculator.defuzz: fail if no term has a membership value or
\* if the aggregated curve sums to zero; otherwise the centroid.
Failed == [num |-> None, den |-> 1]

defuzz_curve(mfx, nv) ==
  IF CurveSum(mfx, nv) = 0 THEN Failed ELSE centroid(mfx, nv)

\* The aggregated curve, read only at the points of the new universe.
find_memberships(mv) == [p \in 0..(2 * UMax) |-> output_at(mv, p)]

defuzz_on(mv, nv) ==
  IF CutTerms(mv) = {} THEN Failed ELSE defuzz_curve(find_memberships(mv), nv)

defuzz(mv) == defuzz_on(mv, new_values(mv))

\* One whole novel computation for the inputs (t, h).
Evaluate(order, w, t, h) == defuzz(fire_rules(NoMembership, order, w, t, h))

\* ------------------------------------------------------------------ the state

VARIABLES
  pc,                \* where the script (or the operation under study) stands
  i, j,              \* the grid sweep's loop indices
  k,                 \* the index of the next test case
  input,             \* fan_simulation.input
  weight,            \* the weight of each rule's consequent
  sim,               \* fan_simulation's stored state, per unique id
  output,            \* fan_simulation.output['fan_speed']
  output_fan_speed,  \* the crisp value read after the single test
  fan_output,        \* the result matrix of the sweep
  result,            \* the crisp value read in the test-case loop
  raised,            \* history: the grid points whose evaluation raised
  hist,              \* history: the outputs read so far, per input pair
  pending,           \* the rules of the current run not yet computed
  term_mv,           \* the term membership values of the current run
  prev_output,       \* the output before the last change of a weight
  varied,            \* the rule whose weight is being changed
  mf_term, mf_x,     \* a membership function, a sample point,
  mf_degree          \* and the degree computed for them

vars == <<pc, i, j, k, input, weight, sim, output, output_fan_speed, fan_output,
          result, raised, hist, pending, term_mv, prev_output, varied,
          mf_term, mf_x, mf_degree>>

progVars == <<i, j, k, output_fan_speed, fan_output, result, raised>>

ruleVars == <<pending, term_mv, prev_output, varied>>

mfVars == <<mf_term, mf_x, mf_degree>>

\* ------------------------------------------------------ the shared simulation

\* Variant of unique_id that is not rebuilt when an input is set.
unique_id_stale(t, h) == <<0, 0>>

\* The key under which the simulation stores the state of a run: it is
\* rebuilt from the current inputs whenever an input is set.  (The key is
\* taken here to depend on the input values only; a key that also told a
\* Python int from a numpy integer would turn some stored runs into novel
\* ones, which compute the same output.)
unique_id(t, h) == <<t, h>>

NewSim == [calculated |-> {}, mv |-> <<>>, out |-> <<>>]

\* The term membership values stored for the run u (None for a novel run).
stored_mv(s, u) == IF u \in DOMAIN s.mv THEN s.mv[u] ELSE NoMembership

Put(f, key, val) == [q \in DOMAIN f \cup {key} |-> IF q = key THEN val ELSE f[q]]

\* fan_simulation.input[...] = t, h followed by fan_simulation.compute():
\* the pair <<new stored state, crisp output or Failed>>.  A run whose inputs
\* were computed before returns the stored output; a novel run fuzzifies,
\* computes the rules, defuzzifies, and is noted as calculated only if the
\* defuzzification succeeded.
store(s, u, m, o) ==
  IF o = Failed
  THEN <<[s EXCEPT !.mv = Put(s.mv, u, m)], Failed>>
  ELSE <<[calculated |-> s.calculated \cup {u},
          mv |-> Put(s.mv, u, m),
          out |-> Put(s.out, u, o)], o>>

run(s, u, m) == store(s, u, m, defuzz(m))

compute(s, w, t, h) ==
  IF unique_id(t, h) \in s.calculated
  THEN <<s, s.out[unique_id(t, h)]>>
  ELSE run(s, unique_id(t, h), fire_rules(stored_mv(s, unique_id(t, h)), RuleOrder, w, t, h))

\* The history of outputs read for the inputs (t, h), extended by o.
Record(hs, t, h, o) ==
  Put(hs, <<t, h>>, IF <<t, h>> \in DOMAIN hs THEN Append(hs[<<t, h>>], o) ELSE <<o>>)

\* --------------------------------------------------------------- the script

test_temperature == 30

test_humidity == 70

\* np.arange(0, 101, 5)
GridStep == 5

GridLast == 20

temp_range == [n \in 0..GridLast |-> GridStep * n]

humid_range == [n \in 0..GridLast |-> GridStep * n]

\* np.meshgrid(temp_range, humid_range): row i holds humidity i, column j
\* holds temperature j.
temp_mesh(a, b) == temp_range[b]

humid_mesh(a, b) == humid_range[a]

test_cases == << <<10, 20>>, <<30, 50>>, <<80, 80>>, <<45, 30>>, <<90, 40>> >>

\* Storing a float into the integer matrix made by np.zeros_like(temp_mesh)
\* truncates it.
Truncated(o) == o.num \div o.den

NoInput == [temperature |-> None, humidity |-> None]

Idle == [num |-> None, den |-> 1]

ProgInit ==
  /\ i = 0 /\ j = 0 /\ k = 1
  /\ output_fan_speed = Idle
  /\ fan_output = [c \in (0..GridLast) \X (0..GridLast) |-> 0]
  /\ result = Idle
  /\ raised = {}

RuleIdle == pending = {} /\ term_mv = NoMembership /\ prev_output = Idle /\ varied = 0

MFIdle == mf_term = "Cold" /\ mf_x = 0 /\ mf_degree = 0

Init ==
  /\ pc = "test"
  /\ input = NoInput
  /\ weight = DefaultWeights
  /\ sim = NewSim
  /\ output = Idle
  /\ hist = <<>>
  /\ ProgInit /\ RuleIdle /\ MFIdle

\* Lines 121-132: the single test at (30, 70); an exception here is not
\* caught and ends the script.
SingleTest ==
  /\ pc = "test"
  /\ \E c \in {compute(sim, weight, test_temperature, test_humidity)} :
         /\ input' = [temperature |-> test_temperature, humidity |-> test_humidity]
         /\ sim' = c[1]
         /\ IF c[2] = Failed
            THEN /\ pc' = "crashed"
                 /\ UNCHANGED <<output, output_fan_speed, hist>>
            ELSE /\ pc' = "sweep"
                 /\ output' = c[2]
                 /\ output_fan_speed' = c[2]
                 /\ hist' = Record(hist, test_temperature, test_humidity, c[2])
  /\ UNCHANGED <<i, j, k, fan_output, result, raised, weight>>
  /\ UNCHANGED ruleVars /\ UNCHANGED mfVars

\* The loop indices after the grid point (i, j), and the end of the sweep.
Advance ==
  /\ j' = IF j = GridLast THEN 0 ELSE j + 1
  /\ i' = IF j = GridLast THEN i + 1 ELSE i
  /\ pc' = IF i = GridLast /\ j = GridLast THEN "cases" ELSE "sweep"

\* Lines 162-171: one grid point.  Whatever compute raises is caught and a
\* zero is stored in its place.
SweepStep ==
  /\ pc = "sweep"
  /\ LET t == temp_mesh(i, j)
         h == humid_mesh(i, j)
     IN  \E c \in {compute(sim, weight, t, h)} :
         /\ input' = [temperature |-> t, humidity |-> h]
         /\ sim' = c[1]
         /\ IF c[2] = Failed
            THEN /\ fan_output' = [fan_output EXCEPT ![<<i, j>>] = 0]
                 /\ raised' = raised \cup {[kind |-> "ValueError", at |-> <<i, j>>]}
                 /\ UNCHANGED <<output, hist>>
            ELSE /\ fan_output' = [fan_output EXCEPT ![<<i, j>>] = Truncated(c[2])]
                 /\ output' = c[2]
                 /\ hist' = Record(hist, t, h, c[2])
                 /\ UNCHANGED raised
  /\ Advance
  /\ UNCHANGED <<k, output_fan_speed, result, weight>>
  /\ UNCHANGED ruleVars /\ UNCHANGED mfVars

\* Lines 213-218: one test case; an exception here is not caught.
TestCase ==
  /\ pc = "cases"
  /\ LET t == test_cases[k][1]
         h == test_cases[k][2]
     IN  \E c \in {compute(sim, weight, t, h)} :
         /\ input' = [temperature |-> t, humidity |-> h]
         /\ sim' = c[1]
         /\ IF c[2] = Failed
            THEN /\ pc' = "crashed"
                 /\ UNCHANGED <<output, result, hist, k>>
            ELSE /\ pc' = IF k = Len(test_cases) THEN "done" ELSE "cases"
                 /\ k' = k + 1
                 /\ output' = c[2]
                 /\ result' = c[2]
                 /\ hist' = Record(hist, t, h, c[2])
  /\ UNCHANGED <<i, j, output_fan_speed, fan_output, raised, weight>>
  /\ UNCHANGED ruleVars /\ UNCHANGED mfVars

Next == SingleTest \/ SweepStep \/ TestCase

Spec == Init /\ [][Next]_vars

\* ------------------------------------------- the sweep under raised exceptions

\* The bare except of the sweep catches whatever is raised inside the try,
\* not only a failed defuzzification: an interrupt or a memory error raised
\* while a grid point is evaluated takes the same branch.  At most MaxFaults
\* such exceptions are raised, and the sweep is followed for MaxAfterFault
\* grid points after one.
MaxFaults == 1

MaxAfterFault == 2

GridIndex(a, b) == a * (GridLast + 1) + b

InFaultWindow ==
  \A f \in raised : GridIndex(i, j) <= GridIndex(f.at[1], f.at[2]) + MaxAfterFault

\* Lines 164-171 when the try body raises at grid point (i, j): the inputs
\* were set, the exception is swallowed and 0 is stored.
SweepInterrupted ==
  /\ pc = "sweep"
  /\ Cardinality(raised) < MaxFaults
  /\ input' = [temperature |-> temp_mesh(i, j), humidity |-> humid_mesh(i, j)]
  /\ fan_output' = [fan_output EXCEPT ![<<i, j>>] = 0]
  /\ raised' = raised \cup {[kind |-> "Interrupt", at |-> <<i, j>>]}
  /\ Advance
  /\ UNCHANGED <<k, weight, sim, output, output_fan_speed, result, hist>>
  /\ UNCHANGED ruleVars /\ UNCHANGED mfVars

FaultNext == (InFaultWindow /\ Next) \/ SweepInterrupted

SpecFault == Init /\ [][FaultNext]_vars

\* --------------------------------------- one evaluation, for any input pair

ProgIdle ==
  /\ i = 0 /\ j = 0 /\ k = 1
  /\ output_fan_speed = Idle
  /\ fan_output = <<>>
  /\ result = Idle
  /\ raised = {}

\* The two inputs have been assigned, to any pair of values of the universes.
EvalInit ==
  /\ pc = "eval"
  /\ input \in [temperature : Universe, humidity : Universe]
  /\ weight = DefaultWeights
  /\ sim = NewSim
  /\ output = Idle
  /\ hist = <<>>
  /\ ProgIdle /\ RuleIdle /\ MFIdle

\* The inputs (t, h) on the simulation, compute, read the output.
Evaluation(t, h, after) ==
  \E c \in {compute(sim, weight, t, h)} :
     /\ input' = [temperature |-> t, humidity |-> h]
     /\ sim' = c[1]
     /\ prev_output' = output
     /\ IF c[2] = Failed
        THEN /\ pc' = "crashed"
             /\ UNCHANGED <<output, hist>>
        ELSE /\ pc' = after
             /\ output' = c[2]
             /\ hist' = Record(hist, t, h, c[2])
     /\ UNCHANGED <<weight, pending, term_mv, varied>>
     /\ UNCHANGED progVars /\ UNCHANGED mfVars

\* compute() for the inputs assigned.
EvaluateAny ==
  /\ pc = "eval"
  /\ Evaluation(input.temperature, input.humidity, "swap")

\* The same simulation, with the two inputs exchanged.
EvaluateSwapped ==
  /\ pc = "swap"
  /\ Evaluation(input.humidity, input.temperature, "evaldone")

EvalNext == EvaluateAny \/ EvaluateSwapped

SpecEval == EvalInit /\ [][EvalNext]_vars

\* ----------------------------------------- the rules of one run, in any order

GridInputs == {temp_range[n] : n \in 0..GridLast}

OrderInit ==
  /\ pc = "fire"
  /\ input \in [temperature : GridInputs, humidity : GridInputs]
  /\ weight = DefaultWeights
  /\ sim = NewSim
  /\ output = Idle
  /\ hist = <<>>
  /\ pending = RuleIds
  /\ term_mv = NoMembership
  /\ prev_output = Idle
  /\ varied = 0
  /\ ProgIdle /\ MFIdle

\* The loop over the rules of a novel run, taking the rules in any order:
\* the first rule taken clears its consequent term, every rule is computed
\* and accumulated into its consequent term.
FireRule ==
  /\ pc = "fire"
  /\ \E r \in pending :
        /\ term_mv' = compute_rule(IF pending = RuleIds THEN clear_first(term_mv, r) ELSE term_mv,
                                   r, weight, input.temperature, input.humidity)
        /\ pending' = pending \ {r}
        /\ pc' = IF pending = {r} THEN "defuzz" ELSE "fire"
  /\ UNCHANGED <<input, weight, sim, output, hist, prev_output, varied>>
  /\ UNCHANGED progVars /\ UNCHANGED mfVars

\* The defuzzification that ends the run.
Defuzzify ==
  /\ pc = "defuzz"
  /\ output' = defuzz(term_mv)
  /\ pc' = "fired"
  /\ UNCHANGED <<input, weight, sim, hist, pending, term_mv, prev_output, varied>>
  /\ UNCHANGED progVars /\ UNCHANGED mfVars

OrderNext == FireRule \/ Defuzzify

SpecOrder == OrderInit /\ [][OrderNext]_vars

\* ------------------------------------------------ one rule's weight, raised

\* One rule's weight starts at 0 and is raised in steps of 1/WOne up to 1.0,
\* the other rules keep their weight 1.0; the output is computed after each
\* change on a simulation that holds no earlier run.
WeightInit ==
  /\ pc = "weigh"
  /\ input \in [temperature : GridInputs, humidity : GridInputs]
  /\ varied \in RuleIds
  /\ weight = [DefaultWeights EXCEPT ![varied] = 0]
  /\ sim = NewSim
  /\ output = Idle
  /\ prev_output = Idle
  /\ hist = <<>>
  /\ pending = {}
  /\ term_mv = NoMembership
  /\ ProgIdle /\ MFIdle

Weigh ==
  /\ pc = "weigh"
  /\ output' = compute(NewSim, weight, input.temperature, input.humidity)[2]
  /\ prev_output' = output
  /\ pc' = "raise"
  /\ UNCHANGED <<input, weight, sim, hist, pending, term_mv, varied>>
  /\ UNCHANGED progVars /\ UNCHANGED mfVars

RaiseWeight ==
  /\ pc = "raise"
  /\ weight[varied] < WOne
  /\ weight' = [weight EXCEPT ![varied] = weight[varied] + 1]
  /\ pc' = "weigh"
  /\ UNCHANGED <<input, sim, output, hist, pending, term_mv, prev_output, varied>>
  /\ UNCHANGED progVars /\ UNCHANGED mfVars

WeightNext == Weigh \/ RaiseWeight

SpecWeight == WeightInit /\ [][WeightNext]_vars

\* ------------------------------------------------- the membership functions

AllTerms == TempTerms \cup HumidTerms \cup FanTerms

\* The sampled membership function of a term, as the script stores it.
TermMF(name) ==
  IF name \in TempTerms THEN temperature[name]
  ELSE IF name \in HumidTerms THEN humidity[name]
  ELSE fan_speed[name]

MFInit ==
  /\ pc = "mf"
  /\ mf_term \in AllTerms
  /\ mf_x \in Universe
  /\ mf_degree = None
  /\ input = NoInput
  /\ weight = DefaultWeights
  /\ sim = NewSim
  /\ output = Idle
  /\ hist = <<>>
  /\ ProgIdle /\ RuleIdle

\* Reading the degree of a term at a sample point of its universe.
Degree ==
  /\ pc = "mf"
  /\ mf_degree' = TermMF(mf_term)[mf_x]
  /\ pc' = "mfdone"
  /\ UNCHANGED <<input, weight, sim, output, hist, mf_term, mf_x>>
  /\ UNCHANGED progVars /\ UNCHANGED ruleVars

MFNext == Degree

SpecMF == MFInit /\ [][MFNext]_vars

\* ------------------------------------------------------------------ claims

\* o1 <= o2 for two crisp outputs.
AtMost(o1, o2) == ~FracLess(o2.num, o2.den, o1.num, o1.den)

Frac(n, d) == [num |-> n, den |-> d]

Computed(o) == o.num # None

\* The centroids of the unclipped Low and High shapes.
LowShapeCentroid == defuzz([Low |-> One, Medium |-> None, High |-> None])

HighShapeCentroid == defuzz([Low |-> None, Medium |-> None, High |-> One])

C1_SameInputsSameOutput ==
  /\ \A u \in DOMAIN hist : \A n \in 1..Len(hist[u]) : hist[u][n] = hist[u][1]
  /\ pc \in {"sweep", "cases", "done"}
        => output = Evaluate(RuleOrder, DefaultWeights, input.temperature, input.humidity)

\* The script has ended and (30, 70) was computed twice, before and during
\* the sweep, with other grid points computed in between.
C1_Witness ==
  /\ pc = "done"
  /\ Len(hist[<<test_temperature, test_humidity>>]) >= 2
  /\ Cardinality(DOMAIN hist) > 2

\* C2: at temperature 0, humidity 0 only Cold & Dry -> Low fires, at
\* strength 1, and the crisp fan_speed is the centroid of the unclipped Low
\* shape, within 1 of 16.67.
C2_ColdDryOnly ==
  (pc = "swap" /\ input = [temperature |-> 0, humidity |-> 0])
     => /\ firing(fan_control[1], 0, 0) = One
        /\ fan_control[1] = [temp |-> "Cold", humid |-> "Dry", out |-> "Low"]
        /\ \A r \in RuleIds \ {1} : firing(fan_control[r], 0, 0) = 0
        /\ output = LowShapeCentroid
        /\ AtMost(Frac(1567, 100), output)
        /\ AtMost(output, Frac(1767, 100))

C2_Witness ==
  pc = "swap" /\ input = [temperature |-> 0, humidity |-> 0] /\ Computed(output)

\* C8: for every input pair of 0..100 x 0..100 some rule fires with a
\* strictly positive strength, and compute does not fail.
C8_SomeRuleFires ==
  /\ pc # "crashed"
  /\ pc \in {"swap", "evaldone"}
        => /\ \E r \in RuleIds :
                firing(fan_control[r], input.temperature, input.humidity) > 0
           /\ Computed(output)
           /\ <<input.temperature, input.humidity>> \in sim.calculated

\* The input (50, 50), where only Warm and Comfort are positive.
C8_Witness ==
  /\ pc = "swap"
  /\ input = [temperature |-> 50, humidity |-> 50]
  /\ Computed(output)
  /\ Cardinality({r \in RuleIds : firing(fan_control[r], 50, 50) > 0}) = 1

\* C9: the fan_speed computed for (t, h) equals the fan_speed computed for
\* (h, t).
C9_Symmetric ==
  pc = "evaldone" => output = prev_output

C9_Witness ==
  /\ pc = "evaldone"
  /\ input = [temperature |-> 100, humidity |-> 10]
  /\ Computed(output) /\ Computed(prev_output)

\* C10: every crisp fan_speed lies between the centroid of the unclipped Low
\* shape, 50/3, and the centroid of the unclipped High shape, 250/3, so it
\* is never 0 or 100.
C10_OutputRange ==
  pc \in {"swap", "evaldone"}
     => /\ AtMost(Frac(50, 3), output)
        /\ AtMost(output, Frac(250, 3))
        /\ AtMost(LowShapeCentroid, output)
        /\ AtMost(output, HighShapeCentroid)
        /\ output.num > 0
        /\ output.num < UMax * output.den

\* An output strictly inside the range, and not the middle of the universe.
C10_Witness ==
  /\ pc = "swap"
  /\ ~AtMost(output, Frac(50, 3))
  /\ ~AtMost(Frac(40, 1), output)

\* C7: whatever the order in which the nine rules are computed, the term
\* membership values, and with them the aggregated curve and the crisp
\* output, are those of the order of the rule list.
C7_OrderIndependent ==
  /\ pc \in {"defuzz", "fired"}
        => term_mv = fire_rules(NoMembership, RuleOrder, weight,
                                input.temperature, input.humidity)
  /\ pc = "fired"
        => output = Evaluate(RuleOrder, weight, input.temperature, input.humidity)

\* A run in which at least two rules with the same consequent fired with
\* different strengths.
C7_Witness ==
  /\ pc = "fired"
  /\ Computed(output)
  /\ firing(rule6, input.temperature, input.humidity) > 0
  /\ firing(rule8, input.temperature, input.humidity)
       > firing(rule6, input.temperature, input.humidity)

\* C4: the degree of every term at its peak x = b is exactly 1, also where
\* the peak is an end of the support (a = b = 0, b = c = 100).
C4_PeakIsOne ==
  (pc = "mfdone" /\ mf_x = abc[mf_term][2]) => mf_degree = One

C4_Witness ==
  pc = "mfdone" /\ mf_term = "Hot" /\ mf_x = 100 /\ mf_degree = One

\* C5: the degree of every term at every sample point is in [0, 1], and is 0
\* at every sample point outside the term's support [a, c].
C5_DegreeBounds ==
  pc = "mfdone"
     => /\ 0 <= mf_degree /\ mf_degree <= One
        /\ (mf_x < abc[mf_term][1] \/ mf_x > abc[mf_term][3]) => mf_degree = 0

C5_Witness ==
  pc = "mfdone" /\ mf_term = "Warm" /\ mf_x = 90 /\ mf_degree = 0

\* C3 (as claimed): a grid point whose evaluation raised is not given the
\* default value 0 in the result matrix.
C3_FailureNotZero ==
  \A f \in raised : fan_output[f.at] # 0

====
